---- MODULE Spec2Model ----
(***************************************************************************)
(* Billing and settlement engine of CRMB: the Bill model's save hooks      *)
(* (backend/src/models/Bill.js), the Customer model's loyalty and purchase *)
(* statistics (backend/src/models/Customer.js) and the bill routes         *)
(* (backend/src/routes/bills.js): create, update, add payment, cancel.     *)
(*                                                                         *)
(* Money is held in paise (1/100 rupee).  For the prices (multiples of 100 *)
(* rupees), discounts and tax rates the model draws, every quotient by 100 *)
(* below is exact, so the integer results are the real-number results.     *)
(* Binary floating-point rounding of the JavaScript Number type is not     *)
(* modelled.  averageOrderValue, the one quotient that is not exact, is    *)
(* held as a fraction.  Loyalty points are whole numbers; one point is     *)
(* worth one rupee where the code subtracts points from money.             *)
(*                                                                         *)
(* A document save is modelled as the schema validators on the paths the   *)
(* caller set, then the pre-save hooks in the order they are registered,   *)
(* then the write.  The bill number and the totals are produced by the     *)
(* hooks.                                                                  *)
(*                                                                         *)
(* Spec is the engine under any sequence of requests.  SpecCreate applies  *)
(* POST /api/bills once to a store drawn from a wider range of stock       *)
(* levels, customer tiers and requests; calc holds the request and the     *)
(* store as it was before the request.  SpecRoundTrip is SpecCreate        *)
(* followed by a cancel of the bill.  In these three each request handler  *)
(* is one atomic action.                                                   *)
(*                                                                         *)
(* SpecConcurrent runs two handlers at once.  A handler yields at every    *)
(* await: each step of it is the code between two awaits together with the *)
(* one database operation awaited, and inflight holds each handler's       *)
(* position and the documents it has in memory.                            *)
(***************************************************************************)
EXTENDS Integers, Sequences, FiniteSets, TLC

VARIABLES products, customers, bills, lastResult, calc, inflight

vars == <<products, customers, bills, lastResult, calc, inflight>>

(***************************************************************************)
(* Bounds of the model.                                                    *)
(***************************************************************************)
MaxBills == 1
MaxItems == 2
MaxStock == 3

Rupees(r) == r * 100

(***************************************************************************)
(* Request inputs.                                                         *)
(***************************************************************************)
ProductIds == {"P1", "P2", "P3"}
SellableIds == {"P1", "P2"}
RequestProductIds == ProductIds \cup {"P0"}
CustomerIds == {"C1"}
RequestCustomerIds == CustomerIds \cup {"C0"}
CustomerTypes == {"new", "regular", "loyal", "vip"}

\* Spec: <<quantity, discountPercentage>> of a cart line.
LineOptions == {<<1, 0>>, <<3, 10>>, <<1, 150>>}
LoyaltyInputs == {0, 200}
PaymentAmounts == {Rupees(400), Rupees(600)}
PaymentDetailsInputs == {<<>>, <<Rupees(300)>>}
UpdateStatuses == {"completed"}
UpdatePaymentStatuses == {"paid"}

\* SpecCreate.
WideQuantities == {1, 3, 5}
WideDiscounts == {0, 10, 150}
WideLoyaltyInputs == {0, 60, 200, 400}
StockLevels == {0, 2, 3}

Lines(ids, options) ==
    {[product |-> p, quantity |-> o[1], discountPercentage |-> o[2]] :
        p \in ids, o \in options}

CartItems ==
    Lines(SellableIds, LineOptions)
        \cup Lines(RequestProductIds \ SellableIds, {<<1, 0>>})

WideCartItems ==
    Lines(SellableIds, WideQuantities \X WideDiscounts)
        \cup Lines(RequestProductIds \ SellableIds, {<<1, 0>>})

CartsOf(lines) == UNION {[1..n -> lines] : n \in 1..MaxItems}

Carts == CartsOf(CartItems)

WideCarts == CartsOf(WideCartItems)

(***************************************************************************)
(* Sequence helpers (Array.prototype.reduce over a field).                 *)
(***************************************************************************)
RECURSIVE SumSeq(_)
SumSeq(s) == IF s = <<>> THEN 0 ELSE Head(s) + SumSeq(Tail(s))

(***************************************************************************)
(* Customer model.                                                         *)
(***************************************************************************)
RegularThreshold == 10000
LoyalThreshold == 50000
VipThreshold == 100000

\* Mutant: the 'loyal' case of the switch is missing.
CalculateLoyaltyPointsNoLoyal(customerType, amount) ==
    LET basePoints == amount \div Rupees(100)
    IN  CASE customerType = "vip" -> basePoints * 2
          [] OTHER                -> basePoints

\* customerSchema.methods.calculateLoyaltyPoints: 1 point per 100 rupees,
\* times 1, 1.5 or 2, floored.
CalculateLoyaltyPoints(customerType, amount) ==
    LET basePoints == amount \div Rupees(100)
    IN  CASE customerType = "loyal" -> (basePoints * 3) \div 2
          [] customerType = "vip"   -> basePoints * 2
          [] OTHER                  -> basePoints

\* Mutant: the average order value is left as it was.
UpdatePurchaseStatsStaleAverage(cust, billAmount) ==
    LET purchases == cust.totalPurchases + 1
        spent     == cust.totalSpent + billAmount
        earned    == CalculateLoyaltyPoints(cust.customerType, billAmount)
    IN  [customer |-> [cust EXCEPT !.totalPurchases = purchases,
                                   !.totalSpent = spent,
                                   !.loyaltyPoints = @ + earned],
         earnedPoints |-> earned]

\* customerSchema.methods.updatePurchaseStats
UpdatePurchaseStats(cust, billAmount) ==
    LET purchases == cust.totalPurchases + 1
        spent     == cust.totalSpent + billAmount
        earned    == CalculateLoyaltyPoints(cust.customerType, billAmount)
    IN  [customer |-> [cust EXCEPT !.totalPurchases = purchases,
                                   !.totalSpent = spent,
                                   !.averageOrderValue =
                                       [num |-> spent, den |-> purchases],
                                   !.loyaltyPoints = @ + earned],
         earnedPoints |-> earned]

\* customerSchema.pre('save'): customer type from cumulative spend, when
\* totalSpent was modified.
CustomerTypeHook(cust, spentModified) ==
    IF ~spentModified THEN cust
    ELSE IF cust.totalSpent >= Rupees(VipThreshold)
            THEN [cust EXCEPT !.customerType = "vip"]
    ELSE IF cust.totalSpent >= Rupees(LoyalThreshold)
            THEN [cust EXCEPT !.customerType = "loyal"]
    ELSE IF cust.totalSpent >= Rupees(RegularThreshold)
            THEN [cust EXCEPT !.customerType = "regular"]
    ELSE cust

\* Schema validators of the Customer paths the bill routes modify (min: 0).
CustomerValidates(cust) ==
    /\ cust.loyaltyPoints >= 0
    /\ cust.totalSpent >= 0
    /\ cust.totalPurchases >= 0

(***************************************************************************)
(* Bill model.                                                             *)
(***************************************************************************)
\* POST /api/bills, "Calculate item totals": the line priced from the
\* product as it is now.
CalcBillItem(pid, product, item) ==
    LET unitPrice      == product.sellingPrice
        discountAmount == ((unitPrice * item.quantity)
                              * item.discountPercentage) \div 100
        afterDiscount  == (unitPrice * item.quantity) - discountAmount
        taxAmount      == (afterDiscount * product.taxRate) \div 100
    IN  [product            |-> pid,
         quantity           |-> item.quantity,
         unitPrice          |-> unitPrice,
         discountPercentage |-> item.discountPercentage,
         discountAmount     |-> discountAmount,
         taxRate            |-> product.taxRate,
         taxAmount          |-> taxAmount,
         lineTotal          |-> afterDiscount + taxAmount]

\* Mutant: the tax is taken on the amount with the stored tax added.
HookItemCompounding(item) ==
    LET itemSubtotal   == item.quantity * item.unitPrice
        discountAmount == (itemSubtotal * item.discountPercentage) \div 100
        afterDiscount  == itemSubtotal - discountAmount
        taxAmount      == ((afterDiscount + item.taxAmount) * item.taxRate)
                              \div 100
    IN  [item EXCEPT !.discountAmount = discountAmount,
                     !.taxAmount = taxAmount,
                     !.lineTotal = afterDiscount + taxAmount]

\* Mutant: tax is taken on the amount before the discount.
HookItemTaxBeforeDiscount(item) ==
    LET itemSubtotal   == item.quantity * item.unitPrice
        discountAmount == (itemSubtotal * item.discountPercentage) \div 100
        afterDiscount  == itemSubtotal - discountAmount
        taxAmount      == (itemSubtotal * item.taxRate) \div 100
    IN  [item EXCEPT !.discountAmount = discountAmount,
                     !.taxAmount = taxAmount,
                     !.lineTotal = afterDiscount + taxAmount]

\* The per-item body of the totals hook's first reduce.
HookItem(item) ==
    LET itemSubtotal   == item.quantity * item.unitPrice
        discountAmount == (itemSubtotal * item.discountPercentage) \div 100
        afterDiscount  == itemSubtotal - discountAmount
        taxAmount      == (afterDiscount * item.taxRate) \div 100
    IN  [item EXCEPT !.discountAmount = discountAmount,
                     !.taxAmount = taxAmount,
                     !.lineTotal = afterDiscount + taxAmount]

ItemSubtotal(item) == item.quantity * item.unitPrice
ItemDiscount(item) == item.discountAmount
ItemTax(item) == item.taxAmount

\* Mutant: a bill paid exactly in full is not yet 'paid'.
HookPaymentStatusStrict(amountPaid, grandTotal) ==
    IF amountPaid > grandTotal THEN "paid"
    ELSE IF amountPaid > 0 THEN "partial"
    ELSE "pending"

\* The payment status the totals hook derives.
HookPaymentStatus(amountPaid, grandTotal) ==
    IF amountPaid >= grandTotal THEN "paid"
    ELSE IF amountPaid > 0 THEN "partial"
    ELSE "pending"

\* Mutant: the discount is not taken off the grand total.
HookGrandTotalNoDiscount(subtotal, totalDiscount, totalTax, deliveryCharges) ==
    subtotal + totalTax + deliveryCharges

\* The grand total the totals hook derives.
HookGrandTotal(subtotal, totalDiscount, totalTax, deliveryCharges) ==
    subtotal - totalDiscount + totalTax + deliveryCharges

\* The amount due the totals hook derives.
HookAmountDue(grandTotal, amountPaid, loyaltyPointsUsed) ==
    IF amountPaid >= grandTotal THEN 0
    ELSE grandTotal - amountPaid - Rupees(loyaltyPointsUsed)

\* Mutant: the hook prices each line from the product as it is now.
TotalsHookLivePrice(bill) ==
    LET items         == [i \in 1..Len(bill.items) |->
                             HookItem([bill.items[i] EXCEPT
                                 !.unitPrice =
                                     products[bill.items[i].product].sellingPrice,
                                 !.taxRate =
                                     products[bill.items[i].product].taxRate])]
        subtotal      == SumSeq([i \in 1..Len(items) |-> ItemSubtotal(items[i])])
        totalDiscount == SumSeq([i \in 1..Len(items) |-> ItemDiscount(items[i])])
        totalTax      == SumSeq([i \in 1..Len(items) |-> ItemTax(items[i])])
        grandTotal    == HookGrandTotal(subtotal, totalDiscount, totalTax,
                                        bill.deliveryCharges)
    IN  [bill EXCEPT !.items = items,
                     !.subtotal = subtotal,
                     !.totalDiscount = totalDiscount,
                     !.totalTax = totalTax,
                     !.grandTotal = grandTotal,
                     !.amountDue = HookAmountDue(grandTotal, bill.amountPaid,
                                                 bill.loyaltyPointsUsed),
                     !.paymentStatus = HookPaymentStatus(bill.amountPaid,
                                                         grandTotal)]

\* billSchema.pre('save'), "calculate totals".
TotalsHook(bill) ==
    LET items         == [i \in 1..Len(bill.items) |-> HookItem(bill.items[i])]
        subtotal      == SumSeq([i \in 1..Len(items) |-> ItemSubtotal(items[i])])
        totalDiscount == SumSeq([i \in 1..Len(items) |-> ItemDiscount(items[i])])
        totalTax      == SumSeq([i \in 1..Len(items) |-> ItemTax(items[i])])
        grandTotal    == HookGrandTotal(subtotal, totalDiscount, totalTax,
                                        bill.deliveryCharges)
    IN  [bill EXCEPT !.items = items,
                     !.subtotal = subtotal,
                     !.totalDiscount = totalDiscount,
                     !.totalTax = totalTax,
                     !.grandTotal = grandTotal,
                     !.amountDue = HookAmountDue(grandTotal, bill.amountPaid,
                                                 bill.loyaltyPointsUsed),
                     !.paymentStatus = HookPaymentStatus(bill.amountPaid,
                                                         grandTotal)]

\* billSchema.pre('save'), "generate bill number": the daily sequence part,
\* one more than the number of bills dated today.
BillNumberHook(bill, existing) ==
    IF bill.billNumber = 0
    THEN [bill EXCEPT !.billNumber = Len(existing) + 1]
    ELSE bill

\* Schema validators of the Bill paths POST /api/bills sets.
ItemValidates(item) ==
    /\ item.quantity >= 1
    /\ item.unitPrice >= 0
    /\ item.discountPercentage >= 0
    /\ item.discountPercentage <= 100
    /\ item.discountAmount >= 0
    /\ item.taxRate >= 0
    /\ item.taxAmount >= 0
    /\ item.lineTotal >= 0

BillValidates(bill) ==
    /\ \A i \in 1..Len(bill.items) : ItemValidates(bill.items[i])
    /\ bill.loyaltyPointsUsed >= 0
    /\ bill.amountPaid >= 0
    /\ \A i \in 1..Len(bill.paymentDetails) : bill.paymentDetails[i] >= 0

\* The document Bill.create builds from billData and the schema defaults.
NewBill(customer, billItems, loyaltyPointsUsed, paymentDetails) ==
    [customer            |-> customer,
     items               |-> billItems,
     subtotal            |-> 0,
     totalDiscount       |-> 0,
     totalTax            |-> 0,
     deliveryCharges     |-> 0,
     grandTotal          |-> 0,
     loyaltyPointsUsed   |-> loyaltyPointsUsed,
     loyaltyPointsEarned |-> 0,
     paymentDetails      |-> paymentDetails,
     paymentStatus       |-> "pending",
     amountPaid          |-> SumSeq(paymentDetails),
     amountDue           |-> 0,
     status              |-> "draft",
     billNumber          |-> 0]

(***************************************************************************)
(* POST /api/bills                                                         *)
(***************************************************************************)
ShortEntry(pid, product, item) ==
    [product |-> pid, available |-> product.stockQuantity,
     requested |-> item.quantity]

\* Mutant: a line short of stock is dropped from the bill and not reported.
RECURSIVE ScanItemsDropShort(_, _, _, _)
ScanItemsDropShort(prods, items, billItems, insufficientStock) ==
    IF items = <<>>
    THEN [kind |-> "Scanned", billItems |-> billItems,
          insufficientStock |-> insufficientStock]
    ELSE LET item == Head(items)
             pid  == item.product
         IN  IF pid \notin DOMAIN prods
             THEN [kind |-> "ProductNotFound", billItems |-> <<>>,
                   insufficientStock |-> <<>>]
             ELSE IF ~prods[pid].isActive
             THEN [kind |-> "ProductInactive", billItems |-> <<>>,
                   insufficientStock |-> <<>>]
             ELSE IF prods[pid].stockQuantity < item.quantity
             THEN ScanItemsDropShort(prods, Tail(items), billItems,
                      insufficientStock)
             ELSE ScanItemsDropShort(prods, Tail(items),
                      Append(billItems, CalcBillItem(pid, prods[pid], item)),
                      insufficientStock)

\* Mutant: the loop stops at the first line short of stock.
RECURSIVE ScanItemsFirstShort(_, _, _, _)
ScanItemsFirstShort(prods, items, billItems, insufficientStock) ==
    IF items = <<>>
    THEN [kind |-> "Scanned", billItems |-> billItems,
          insufficientStock |-> insufficientStock]
    ELSE LET item == Head(items)
             pid  == item.product
         IN  IF pid \notin DOMAIN prods
             THEN [kind |-> "ProductNotFound", billItems |-> <<>>,
                   insufficientStock |-> <<>>]
             ELSE IF ~prods[pid].isActive
             THEN [kind |-> "ProductInactive", billItems |-> <<>>,
                   insufficientStock |-> <<>>]
             ELSE IF prods[pid].stockQuantity < item.quantity
             THEN [kind |-> "Scanned", billItems |-> billItems,
                   insufficientStock |->
                       Append(insufficientStock,
                              ShortEntry(pid, prods[pid], item))]
             ELSE ScanItemsFirstShort(prods, Tail(items),
                      Append(billItems, CalcBillItem(pid, prods[pid], item)),
                      insufficientStock)

\* The loop over the cart: returns at the first product that is missing or
\* inactive, collects every line whose product is short of stock, prices
\* the others.
RECURSIVE ScanItems(_, _, _, _)
ScanItems(prods, items, billItems, insufficientStock) ==
    IF items = <<>>
    THEN [kind |-> "Scanned", billItems |-> billItems,
          insufficientStock |-> insufficientStock]
    ELSE LET item == Head(items)
             pid  == item.product
         IN  IF pid \notin DOMAIN prods
             THEN [kind |-> "ProductNotFound", billItems |-> <<>>,
                   insufficientStock |-> <<>>]
             ELSE IF ~prods[pid].isActive
             THEN [kind |-> "ProductInactive", billItems |-> <<>>,
                   insufficientStock |-> <<>>]
             ELSE IF prods[pid].stockQuantity < item.quantity
             THEN ScanItems(prods, Tail(items), billItems,
                      Append(insufficientStock,
                             ShortEntry(pid, prods[pid], item)))
             ELSE ScanItems(prods, Tail(items),
                      Append(billItems, CalcBillItem(pid, prods[pid], item)),
                      insufficientStock)

\* "Update product stock quantities": one $inc per bill line.
RECURSIVE DecrementStock(_, _)
DecrementStock(prods, billItems) ==
    IF billItems = <<>> THEN prods
    ELSE LET item == Head(billItems)
         IN  DecrementStock(
                 [prods EXCEPT ![item.product].stockQuantity = @ - item.quantity,
                               ![item.product].salesCount = @ + item.quantity],
                 Tail(billItems))

NoResult ==
    [kind |-> "None", bill |-> 0, amount |-> 0, insufficientStock |-> <<>>,
     earnedPoints |-> 0]

Result(kind, bill) == [NoResult EXCEPT !.kind = kind, !.bill = bill]

PaymentResult(kind, bill, amount) ==
    [Result(kind, bill) EXCEPT !.amount = amount]

\* "Update customer statistics" and "Deduct loyalty points if used", on the
\* customer document read at the start of the handler.
CustomerAfterPurchase(cust, grandTotal, loyaltyPointsUsed) ==
    LET stats == UpdatePurchaseStats(cust, grandTotal)
    IN  [stats EXCEPT !.customer.loyaltyPoints =
             IF loyaltyPointsUsed > 0 THEN @ - loyaltyPointsUsed ELSE @]

CreateBill(customer, items, loyaltyPointsUsed, paymentDetails) ==
    /\ Len(bills) < MaxBills
    /\ IF customer \notin DOMAIN customers
       THEN /\ lastResult' = Result("CustomerNotFound", 0)
            /\ UNCHANGED <<products, customers, bills>>
       ELSE
       LET scan == ScanItems(products, items, <<>>, <<>>)
       IN  IF scan.kind # "Scanned"
           THEN /\ lastResult' = Result(scan.kind, 0)
                /\ UNCHANGED <<products, customers, bills>>
           ELSE IF scan.insufficientStock # <<>>
           THEN /\ lastResult' =
                       [Result("InsufficientStock", 0) EXCEPT
                           !.insufficientStock = scan.insufficientStock]
                /\ UNCHANGED <<products, customers, bills>>
           ELSE
           LET doc == NewBill(customer, scan.billItems, loyaltyPointsUsed,
                              paymentDetails)
           IN  IF ~BillValidates(doc)
               THEN /\ lastResult' = Result("ServerError", 0)
                    /\ UNCHANGED <<products, customers, bills>>
               ELSE
               LET bill  == TotalsHook(BillNumberHook(doc, bills))
                   after == CustomerAfterPurchase(customers[customer],
                                bill.grandTotal, loyaltyPointsUsed)
               IN  /\ bills' = Append(bills, bill)
                   /\ products' = DecrementStock(products, scan.billItems)
                   /\ IF CustomerValidates(after.customer)
                      THEN /\ customers' =
                                  [customers EXCEPT ![customer] =
                                      CustomerTypeHook(after.customer, TRUE)]
                           /\ lastResult' =
                                  [Result("Created", Len(bills) + 1) EXCEPT
                                      !.earnedPoints = after.earnedPoints]
                      ELSE /\ UNCHANGED customers
                           /\ lastResult' =
                                  Result("ServerError", Len(bills) + 1)

(***************************************************************************)
(* PUT /api/bills/:id: findByIdAndUpdate of the allowed fields; no save    *)
(* hook runs.  "None" stands for a field the request leaves out.           *)
(***************************************************************************)
UpdateBill(b, status, paymentStatus) ==
    /\ b \in 1..Len(bills)
    /\ status # "None" \/ paymentStatus # "None"
    /\ bills' = [bills EXCEPT
                    ![b].status = IF status = "None" THEN @ ELSE status,
                    ![b].paymentStatus =
                        IF paymentStatus = "None" THEN @ ELSE paymentStatus]
    /\ lastResult' = Result("Updated", b)
    /\ UNCHANGED <<products, customers, calc, inflight>>

(***************************************************************************)
(* POST /api/bills/:id/payments                                            *)
(***************************************************************************)
\* Mutant: the balance virtual, which leaves the redeemed points out.
RemainingBalanceNoPoints(bill) == bill.grandTotal - bill.amountPaid

\* "Check if payment amount exceeds remaining balance".
RemainingBalance(bill) ==
    bill.grandTotal - bill.amountPaid - Rupees(bill.loyaltyPointsUsed)

\* Mutant: the payment is recorded but not added to amountPaid.
ApplyPaymentRecordOnly(bill, amount) ==
    TotalsHook([bill EXCEPT !.paymentDetails = Append(@, amount)])

\* billSchema.methods.applyPayment, with the save it starts.
ApplyPayment(bill, amount) ==
    TotalsHook([bill EXCEPT !.paymentDetails = Append(@, amount),
                            !.amountPaid = @ + amount])

AddPayment(b, amount) ==
    /\ b \in 1..Len(bills)
    /\ UNCHANGED <<products, customers, calc, inflight>>
    /\ IF bills[b].paymentStatus = "paid"
       THEN /\ lastResult' = PaymentResult("AlreadyPaid", b, amount)
            /\ UNCHANGED bills
       ELSE IF amount > RemainingBalance(bills[b])
       THEN /\ lastResult' = PaymentResult("ExceedsBalance", b, amount)
            /\ UNCHANGED bills
       ELSE /\ bills' = [bills EXCEPT ![b] = ApplyPayment(@, amount)]
            /\ lastResult' = PaymentResult("PaymentAdded", b, amount)

(***************************************************************************)
(* PUT /api/bills/:id/cancel                                               *)
(***************************************************************************)
\* Mutant: the restore leaves the sales count as it is.
RECURSIVE RestoreStockOnly(_, _)
RestoreStockOnly(prods, billItems) ==
    IF billItems = <<>> THEN prods
    ELSE LET item == Head(billItems)
         IN  RestoreStockOnly(
                 [prods EXCEPT ![item.product].stockQuantity = @ + item.quantity],
                 Tail(billItems))

\* "Restore stock quantities": one $inc per bill line.
RECURSIVE RestoreStock(_, _)
RestoreStock(prods, billItems) ==
    IF billItems = <<>> THEN prods
    ELSE LET item == Head(billItems)
         IN  RestoreStock(
                 [prods EXCEPT ![item.product].stockQuantity = @ + item.quantity,
                               ![item.product].salesCount = @ - item.quantity],
                 Tail(billItems))

Max0(x) == IF x > 0 THEN x ELSE 0

\* "Update customer statistics if bill was completed".
ReversePurchase(cust, bill) ==
    LET purchases == Max0(cust.totalPurchases - 1)
        spent     == Max0(cust.totalSpent - bill.grandTotal)
        points    == Max0(cust.loyaltyPoints + bill.loyaltyPointsUsed
                             - bill.loyaltyPointsEarned)
    IN  [cust EXCEPT !.totalPurchases = purchases,
                     !.totalSpent = spent,
                     !.loyaltyPoints = points,
                     !.averageOrderValue =
                         IF purchases > 0
                         THEN [num |-> spent, den |-> purchases]
                         ELSE [num |-> 0, den |-> 1]]

CancelBill(b) ==
    /\ b \in 1..Len(bills)
    /\ UNCHANGED <<calc, inflight>>
    /\ IF bills[b].status = "cancelled"
       THEN /\ lastResult' = Result("AlreadyCancelled", b)
            /\ UNCHANGED <<products, customers, bills>>
       ELSE IF bills[b].status = "completed" /\ bills[b].paymentStatus = "paid"
       THEN /\ lastResult' = Result("CannotCancelPaid", b)
            /\ UNCHANGED <<products, customers, bills>>
       ELSE /\ \A p \in SellableIds :
                 RestoreStock(products, bills[b].items)[p].stockQuantity
                     <= MaxStock
            /\ products' = RestoreStock(products, bills[b].items)
            /\ customers' =
                 IF bills[b].status = "completed"
                 THEN [customers EXCEPT ![bills[b].customer] =
                         CustomerTypeHook(ReversePurchase(@, bills[b]), TRUE)]
                 ELSE customers
            /\ bills' = [bills EXCEPT
                           ![b] = TotalsHook([@ EXCEPT !.status = "cancelled"])]
            /\ lastResult' = Result("Cancelled", b)

(***************************************************************************)
(* The store.                                                              *)
(***************************************************************************)
ProductTable(stock1, stock2) ==
    [p \in ProductIds |->
        CASE p = "P1" -> [sellingPrice |-> Rupees(100), taxRate |-> 18,
                          stockQuantity |-> stock1, salesCount |-> 0,
                          isActive |-> TRUE]
          [] p = "P2" -> [sellingPrice |-> Rupees(1000), taxRate |-> 0,
                          stockQuantity |-> stock2, salesCount |-> 0,
                          isActive |-> TRUE]
          [] OTHER    -> [sellingPrice |-> Rupees(50), taxRate |-> 12,
                          stockQuantity |-> 5, salesCount |-> 0,
                          isActive |-> FALSE]]

\* A customer of the given tier, with a cumulative spend of that tier.
CustomerOfType(customerType, loyaltyPoints) ==
    LET spent == CASE customerType = "vip"     -> Rupees(VipThreshold)
                   [] customerType = "loyal"   -> Rupees(LoyalThreshold)
                   [] customerType = "regular" -> Rupees(49000)
                   [] OTHER                    -> 0
        purchases == IF spent = 0 THEN 0 ELSE 10
    IN  [customerType |-> customerType, loyaltyPoints |-> loyaltyPoints,
         totalSpent |-> spent, totalPurchases |-> purchases,
         averageOrderValue |->
             [num |-> spent, den |-> IF purchases = 0 THEN 1 ELSE purchases]]

NoRequest ==
    [customer |-> "C0", items |-> <<>>, loyaltyPointsUsed |-> 0,
     paymentDetails |-> <<>>]

\* The requests being handled at once, and a handler with no request.
Procs == {"r1", "r2"}

NoDoc == [none |-> TRUE]

Idle ==
    [op |-> "idle", pc |-> "idle", request |-> NoRequest,
     customerDoc |-> NoDoc, billItems |-> <<>>, insufficientStock |-> <<>>,
     i |-> 0, count |-> 0, bill |-> 0, doc |-> NoDoc, amount |-> 0]

Init ==
    /\ products = ProductTable(3, 2)
    /\ customers = [c \in CustomerIds |-> CustomerOfType("regular", 250)]
    /\ bills = <<>>
    /\ lastResult = NoResult
    /\ calc = [request |-> NoRequest, products |-> products,
               customers |-> customers, done |-> TRUE]
    /\ inflight = [p \in Procs |-> Idle]

Create ==
    /\ \E customer \in RequestCustomerIds, items \in Carts,
          loyaltyPointsUsed \in LoyaltyInputs,
          paymentDetails \in PaymentDetailsInputs :
          CreateBill(customer, items, loyaltyPointsUsed, paymentDetails)
    /\ UNCHANGED <<calc, inflight>>

Update ==
    \E b \in 1..MaxBills, status \in UpdateStatuses \cup {"None"},
       paymentStatus \in UpdatePaymentStatuses \cup {"None"} :
       UpdateBill(b, status, paymentStatus)

Pay == \E b \in 1..MaxBills, amount \in PaymentAmounts : AddPayment(b, amount)

Cancel == \E b \in 1..MaxBills : CancelBill(b)

Next == Create \/ Update \/ Pay \/ Cancel

Spec == Init /\ [][Next]_vars

(***************************************************************************)
(* SpecCreate: one POST /api/bills on a drawn store.                       *)
(***************************************************************************)
InitCreate ==
    /\ \E stock1 \in StockLevels, stock2 \in StockLevels :
          products = ProductTable(stock1, stock2)
    /\ \E customerType \in CustomerTypes :
          customers = [c \in CustomerIds |-> CustomerOfType(customerType, 250)]
    /\ bills = <<>>
    /\ lastResult = NoResult
    /\ \E customer \in RequestCustomerIds, items \in WideCarts,
          loyaltyPointsUsed \in WideLoyaltyInputs,
          paymentDetails \in PaymentDetailsInputs :
          calc = [request |-> [customer |-> customer, items |-> items,
                               loyaltyPointsUsed |-> loyaltyPointsUsed,
                               paymentDetails |-> paymentDetails],
                  products |-> products, customers |-> customers,
                  done |-> FALSE]
    /\ inflight = [p \in Procs |-> Idle]

CreateOnce ==
    /\ ~calc.done
    /\ CreateBill(calc.request.customer, calc.request.items,
                  calc.request.loyaltyPointsUsed, calc.request.paymentDetails)
    /\ calc' = [calc EXCEPT !.done = TRUE]
    /\ UNCHANGED inflight

NextCreate == CreateOnce

SpecCreate == InitCreate /\ [][NextCreate]_vars

(***************************************************************************)
(* Properties.                                                             *)
(***************************************************************************)
BillIds == 1..Len(bills)

LineIds(b) == 1..Len(bills[b].items)

LineGross(item) == item.quantity * item.unitPrice

\* C1: on every line of every persisted bill, after any sequence of create,
\* payment, update and cancel, discountAmount is quantity * unitPrice *
\* discountPercentage / 100, taxAmount is (quantity * unitPrice -
\* discountAmount) * taxRate / 100, lineTotal is quantity * unitPrice -
\* discountAmount + taxAmount, and discountAmount and taxAmount are not
\* negative.
C1_LineAmounts ==
    \A b \in BillIds : \A i \in LineIds(b) :
        LET item == bills[b].items[i]
        IN  /\ item.discountAmount * 100
                  = LineGross(item) * item.discountPercentage
            /\ item.taxAmount * 100
                  = (LineGross(item) - item.discountAmount) * item.taxRate
            /\ item.lineTotal
                  = (LineGross(item) - item.discountAmount) + item.taxAmount
            /\ item.discountAmount >= 0
            /\ item.taxAmount >= 0

\* A bill with a discounted, taxed line that took a payment and was then
\* cancelled.
C1_Witness ==
    /\ lastResult.kind = "Cancelled"
    /\ \E b \in BillIds :
          /\ bills[b].status = "cancelled"
          /\ \E k \in 1..Len(bills[b].paymentDetails) :
                bills[b].paymentDetails[k] \in PaymentAmounts
          /\ \E i \in LineIds(b) :
                /\ bills[b].items[i].discountAmount > 0
                /\ bills[b].items[i].taxAmount > 0

\* C2: on every persisted bill, after every mutating operation, subtotal is
\* the sum of quantity * unitPrice over the lines, totalDiscount the sum of
\* the lines' discountAmount, totalTax the sum of their taxAmount, and
\* grandTotal is subtotal - totalDiscount + totalTax + deliveryCharges and
\* is not negative.
C2_Totals ==
    \A b \in BillIds :
        LET bill == bills[b]
        IN  /\ bill.subtotal =
                   SumSeq([i \in 1..Len(bill.items) |-> LineGross(bill.items[i])])
            /\ bill.totalDiscount =
                   SumSeq([i \in 1..Len(bill.items) |-> ItemDiscount(bill.items[i])])
            /\ bill.totalTax =
                   SumSeq([i \in 1..Len(bill.items) |-> ItemTax(bill.items[i])])
            /\ bill.grandTotal = bill.subtotal - bill.totalDiscount
                                    + bill.totalTax + bill.deliveryCharges
            /\ bill.grandTotal >= 0

\* A two-line bill with a discount, just changed by PUT /:id.
C2_Witness ==
    /\ lastResult.kind = "Updated"
    /\ lastResult.bill \in BillIds
    /\ Len(bills[lastResult.bill].items) = 2
    /\ bills[lastResult.bill].totalDiscount > 0
    /\ bills[lastResult.bill].totalTax > 0

\* The payment status that amountPaid and grandTotal alone determine.
StatusByAmounts(bill) ==
    CASE bill.amountPaid = 0 /\ bill.grandTotal > 0 -> "pending"
      [] bill.amountPaid > 0 /\ bill.amountPaid < bill.grandTotal -> "partial"
      [] OTHER -> "paid"

\* C3: in every reachable state of every bill, paymentStatus is 'pending'
\* when amountPaid is 0, 'partial' when 0 < amountPaid < grandTotal and
\* 'paid' when amountPaid >= grandTotal, also after PUT /:id.
C3_StatusByAmounts ==
    \A b \in BillIds : bills[b].paymentStatus = StatusByAmounts(bills[b])

\* C4: in every reachable state of every bill, amountDue is grandTotal -
\* amountPaid - loyaltyPointsUsed while amountPaid < grandTotal, 0 once
\* amountPaid >= grandTotal, and never negative.
C4_AmountDue ==
    \A b \in BillIds :
        LET bill == bills[b]
        IN  /\ bill.amountPaid < bill.grandTotal =>
                  bill.amountDue = bill.grandTotal - bill.amountPaid
                                      - Rupees(bill.loyaltyPointsUsed)
            /\ bill.amountPaid >= bill.grandTotal => bill.amountDue = 0
            /\ bill.amountDue >= 0

\* C5: on every persisted bill loyaltyPointsUsed is at most half of
\* grandTotal (a request for more is rejected and no bill is created).
C5_LoyaltyCap ==
    \A b \in BillIds :
        2 * Rupees(bills[b].loyaltyPointsUsed) <= bills[b].grandTotal

\* The request names a customer that does not exist, a product that does
\* not exist or is inactive, or a quantity above the product's stock, in
\* the store as it was before the request.
FailsValidation(request, prods, custs) ==
    \/ request.customer \notin DOMAIN custs
    \/ \E i \in 1..Len(request.items) :
          LET item == request.items[i]
          IN  \/ item.product \notin DOMAIN prods
              \/ /\ item.product \in DOMAIN prods
                 /\ \/ ~prods[item.product].isActive
                    \/ prods[item.product].stockQuantity < item.quantity

\* C6: when a create request names a missing customer, a missing or
\* inactive product, or more units of a product than are in stock, no bill
\* is created and no product and no customer is changed.
C6_FailedCreateChangesNothing ==
    (calc.done /\ FailsValidation(calc.request, calc.products, calc.customers))
        => /\ bills = <<>>
           /\ products = calc.products
           /\ customers = calc.customers
           /\ lastResult.kind \in {"CustomerNotFound", "ProductNotFound",
                                   "ProductInactive", "InsufficientStock"}

\* A two-line request refused for stock whose first line was in stock.
C6_Witness ==
    /\ calc.done
    /\ lastResult.kind = "InsufficientStock"
    /\ Len(calc.request.items) = 2
    /\ calc.products[calc.request.items[1].product].stockQuantity
          >= calc.request.items[1].quantity
    /\ calc.products[calc.request.items[1].product].stockQuantity > 0

\* C7: when a create request is refused for insufficient stock, the list
\* in the response has an entry (product, available, requested) for every
\* cart line whose product has less stock than the line asks for.
C7_AllShortagesReported ==
    (calc.done /\ lastResult.kind = "InsufficientStock") =>
        \A i \in 1..Len(calc.request.items) :
            LET item == calc.request.items[i]
            IN  calc.products[item.product].stockQuantity < item.quantity =>
                    \E j \in 1..Len(lastResult.insufficientStock) :
                        lastResult.insufficientStock[j] =
                            [product   |-> item.product,
                             available |->
                                 calc.products[item.product].stockQuantity,
                             requested |-> item.quantity]

\* A refusal that lists two lines, of two products.
C7_Witness ==
    /\ calc.done
    /\ lastResult.kind = "InsufficientStock"
    /\ Len(lastResult.insufficientStock) = 2
    /\ lastResult.insufficientStock[1].product
          # lastResult.insufficientStock[2].product

PaymentKinds == {"PaymentAdded", "AlreadyPaid", "ExceedsBalance"}

\* The step is the handling of a payment request on bill b.
PaymentStepOn(b) ==
    /\ lastResult'.kind \in PaymentKinds
    /\ lastResult'.bill = b
    /\ b \in BillIds

\* The step changes no bill but b.
OnlyBillChanges(b) ==
    /\ Len(bills') = Len(bills)
    /\ \A o \in BillIds : o # b => bills'[o] = bills[o]

\* C8: on a bill with loyaltyPointsUsed = 0, every accepted payment adds
\* its amount to amountPaid and is recorded; after it the bill is 'partial'
\* with amountDue = grandTotal - amountPaid while amountPaid < grandTotal,
\* and 'paid' with amountDue = 0 once amountPaid = grandTotal; a payment
\* request on a 'paid' bill is refused as already paid and changes nothing.
C8_PaymentSequence ==
    [][\A b \in 1..MaxBills :
          (PaymentStepOn(b) /\ bills[b].loyaltyPointsUsed = 0) =>
              LET old == bills[b]
                  new == bills'[b]
              IN  /\ OnlyBillChanges(b)
                  /\ lastResult'.kind = "PaymentAdded" =>
                        /\ new.amountPaid
                              = old.amountPaid + lastResult'.amount
                        /\ new.paymentDetails
                              = Append(old.paymentDetails, lastResult'.amount)
                        /\ new.amountPaid <= new.grandTotal
                        /\ new.amountPaid < new.grandTotal =>
                              /\ new.paymentStatus = "partial"
                              /\ new.amountDue
                                    = new.grandTotal - new.amountPaid
                        /\ new.amountPaid = new.grandTotal =>
                              /\ new.paymentStatus = "paid"
                              /\ new.amountDue = 0
                  /\ old.paymentStatus = "paid" =>
                        /\ lastResult'.kind = "AlreadyPaid"
                        /\ new = old]_vars

\* A bill of 1000 rupees paid by 600 and 400, and a third payment refused.
C8_Witness ==
    /\ lastResult.kind = "AlreadyPaid"
    /\ lastResult.bill \in BillIds
    /\ LET bill == bills[lastResult.bill]
       IN  /\ bill.loyaltyPointsUsed = 0
           /\ bill.grandTotal = Rupees(1000)
           /\ bill.paymentDetails = <<Rupees(600), Rupees(400)>>
           /\ bill.amountPaid = bill.grandTotal
           /\ bill.paymentStatus = "paid"
           /\ bill.amountDue = 0

\* The balance a payment may not exceed.
BalanceLeft(bill) ==
    bill.grandTotal - bill.amountPaid - Rupees(bill.loyaltyPointsUsed)

\* C9 as stated: a payment request whose amount is above the remaining
\* balance is refused with the exceeds-balance error and leaves the bill's
\* payments, amountPaid, amountDue and paymentStatus as they were.  Stated
\* for the bills whose paymentStatus is the one their amounts determine.
C9_Original ==
    [][\A b \in 1..MaxBills :
          (/\ PaymentStepOn(b)
           /\ lastResult'.amount > BalanceLeft(bills[b])
           /\ bills[b].paymentStatus = StatusByAmounts(bills[b])) =>
              /\ lastResult'.kind = "ExceedsBalance"
              /\ bills' = bills]_vars

\* C9, amended: a payment request whose amount is above the remaining
\* balance is refused and leaves every bill as it was; the error is the
\* exceeds-balance error unless the bill's paymentStatus is 'paid', and
\* then it is the already-paid error.
C9_OverpaymentRefused ==
    [][\A b \in 1..MaxBills :
          (PaymentStepOn(b) /\ lastResult'.amount > BalanceLeft(bills[b])) =>
              /\ lastResult'.kind =
                    IF bills[b].paymentStatus = "paid"
                    THEN "AlreadyPaid" ELSE "ExceedsBalance"
              /\ bills' = bills]_vars

\* A partly paid bill with redeemed points that refused a payment for
\* exceeding the balance, though the payment is within grandTotal -
\* amountPaid.
C9_Witness ==
    /\ lastResult.kind = "ExceedsBalance"
    /\ lastResult.bill \in BillIds
    /\ LET bill == bills[lastResult.bill]
       IN  /\ bill.paymentStatus = "partial"
           /\ bill.loyaltyPointsUsed > 0
           /\ lastResult.amount > BalanceLeft(bill)
           /\ lastResult.amount <= bill.grandTotal - bill.amountPaid

\* Twice the tier multiplier: 2 for 'new' and 'regular', 3 for 'loyal', 4
\* for 'vip'.
TwiceMultiplier(customerType) ==
    CASE customerType = "loyal" -> 3
      [] customerType = "vip"   -> 4
      [] OTHER                  -> 2

\* floor(grandTotal / 100), with grandTotal in paise.
BasePoints(grandTotal) == grandTotal \div Rupees(100)

\* The request of SpecCreate was answered 201.
Created == calc.done /\ lastResult.kind = "Created"

CreatedFor == calc.request.customer

\* The points the customer's balance gained, redeemed points added back.
PointsCredited ==
    customers[CreatedFor].loyaltyPoints
        - calc.customers[CreatedFor].loyaltyPoints
        + calc.request.loyaltyPointsUsed

\* C10 as stated: the points credited at a successful create are
\* floor(grandTotal / 100) * tierMultiplier.
C10_Original ==
    Created =>
        2 * PointsCredited
            = BasePoints(bills[1].grandTotal)
                 * TwiceMultiplier(calc.customers[CreatedFor].customerType)

\* C10, amended: the points credited at a successful create, and reported
\* in the response, are floor(floor(grandTotal / 100) * tierMultiplier),
\* with the multiplier of the tier the customer had before the create.
C10_PointsFloored ==
    Created =>
        /\ PointsCredited
              = (BasePoints(bills[1].grandTotal)
                   * TwiceMultiplier(calc.customers[CreatedFor].customerType))
                   \div 2
        /\ lastResult.earnedPoints = PointsCredited

\* A 'loyal' customer with an odd floor(grandTotal / 100), where the
\* product with 1.5 is not whole.
C10_Witness ==
    /\ Created
    /\ calc.customers[CreatedFor].customerType = "loyal"
    /\ BasePoints(bills[1].grandTotal) % 2 = 1
    /\ PointsCredited > BasePoints(bills[1].grandTotal)

\* C11: after every successful POST /api/bills the persisted bill's status
\* is 'completed'.
C11_CompletedAfterCreate ==
    lastResult.kind = "Created" =>
        bills[lastResult.bill].status = "completed"

CancelKinds == {"Cancelled", "AlreadyCancelled", "CannotCancelPaid"}

\* The step is the handling of a cancel request on bill b.
CancelStepOn(b) ==
    /\ lastResult'.kind \in CancelKinds
    /\ lastResult'.bill = b
    /\ b \in BillIds

\* C12: a cancel request on a bill that is paid in full (amountPaid covers
\* grandTotal and paymentStatus is 'paid') and not yet cancelled is refused
\* with the cannot-cancel-paid-bill error, and leaves the bill, every
\* product's stock and sales count and every customer as they were.
C12_PaidBillNotCancelled ==
    [][\A b \in 1..MaxBills :
          (/\ CancelStepOn(b)
           /\ bills[b].status # "cancelled"
           /\ bills[b].paymentStatus = "paid"
           /\ bills[b].amountPaid >= bills[b].grandTotal) =>
              /\ lastResult'.kind = "CannotCancelPaid"
              /\ bills' = bills
              /\ products' = products
              /\ customers' = customers]_vars

(***************************************************************************)
(* SpecRoundTrip: the POST /api/bills of SpecCreate, then cancels of the   *)
(* bill it created.                                                        *)
(***************************************************************************)
CancelOnce ==
    /\ calc.done
    /\ CancelBill(1)

NextRoundTrip == CreateOnce \/ CancelOnce

SpecRoundTrip == InitCreate /\ [][NextRoundTrip]_vars

\* The bill of SpecRoundTrip was created and then cancelled, and nothing
\* else was done to it.
CreatedThenCancelled ==
    /\ calc.done
    /\ lastResult.kind = "Cancelled"

\* C13: creating a bill and then cancelling it, with nothing in between,
\* leaves every product's stockQuantity and salesCount as they were before
\* the create.
C13_StockRoundTrip ==
    CreatedThenCancelled =>
        \A p \in ProductIds :
            /\ products[p].stockQuantity = calc.products[p].stockQuantity
            /\ products[p].salesCount = calc.products[p].salesCount

\* A cancelled bill with lines of two products, one of which it had sold
\* out.
C13_Witness ==
    /\ CreatedThenCancelled
    /\ Len(bills[1].items) = 2
    /\ bills[1].items[1].product # bills[1].items[2].product
    /\ \E i \in 1..2 :
          bills[1].items[i].quantity
              = calc.products[bills[1].items[i].product].stockQuantity

\* C14: creating a bill and then cancelling it, with nothing in between,
\* leaves the customer's totalSpent, totalPurchases, averageOrderValue and
\* loyaltyPoints as they were before the create.
C14_CustomerRoundTrip ==
    CreatedThenCancelled =>
        LET new == customers[bills[1].customer]
            old == calc.customers[bills[1].customer]
        IN  /\ new.totalSpent = old.totalSpent
            /\ new.totalPurchases = old.totalPurchases
            /\ new.loyaltyPoints = old.loyaltyPoints
            /\ new.averageOrderValue.num * old.averageOrderValue.den
                  = old.averageOrderValue.num * new.averageOrderValue.den

\* C15: when a create request fails after the products were validated (the
\* bill could not be saved, or the customer could not be saved), no bill
\* remains persisted, no product's stockQuantity or salesCount is changed
\* and no customer is changed.
C15_AllOrNothing ==
    (calc.done /\ lastResult.kind = "ServerError") =>
        /\ bills = <<>>
        /\ products = calc.products
        /\ customers = calc.customers

(***************************************************************************)
(* SpecConcurrent: two request handlers at once.  Every await of a handler *)
(* is a point where the other handler may run.                             *)
(***************************************************************************)
MaxConcurrentBills == 2
MaxPayments == 1

ConcurrentCarts ==
    {<<[product |-> "P1", quantity |-> 3, discountPercentage |-> 0]>>,
     <<[product |-> "P2", quantity |-> 1, discountPercentage |-> 0],
       [product |-> "P1", quantity |-> 1, discountPercentage |-> 0]>>}

ConcurrentPayments == {Rupees(100)}

\* The handlers that are running operation op (on bill b).
Running(op) == {p \in Procs : inflight[p].op = op}

RunningOn(op, b) == {p \in Running(op) : inflight[p].bill = b}

\* What document.save() writes for a document that was loaded as `loaded`
\* and is now `updated` in memory: the paths whose value was changed, over
\* the document as it is stored now.
SaveDoc(stored, loaded, updated) ==
    [f \in DOMAIN stored |->
        IF updated[f] # loaded[f] THEN updated[f] ELSE stored[f]]

\* The same for a bill: the payments pushed in memory are appended to the
\* stored array ($push), the other changed paths are set.
SaveBillDoc(stored, loaded, updated) ==
    [SaveDoc(stored, loaded, updated) EXCEPT
        !.paymentDetails =
            stored.paymentDetails
                \o SubSeq(updated.paymentDetails,
                          Len(loaded.paymentDetails) + 1,
                          Len(updated.paymentDetails))]

\* Mutant: no unique index on billNumber.
DuplicateKeyNever(existing, bill) == FALSE

\* The unique index on billNumber refuses the insert.
DuplicateKey(existing, bill) ==
    \E b \in 1..Len(existing) : existing[b].billNumber = bill.billNumber

Respond(p, result) ==
    /\ lastResult' = result
    /\ inflight' = [inflight EXCEPT ![p] = Idle]

\* POST /api/bills up to the first Product.findById: the body is read and
\* the customer is looked up.
StartCreate(p) ==
    /\ inflight[p].op = "idle"
    /\ Len(bills) + Cardinality(Running("create")) < MaxConcurrentBills
    /\ \E customer \in CustomerIds, items \in ConcurrentCarts :
          IF customer \notin DOMAIN customers
          THEN /\ Respond(p, Result("CustomerNotFound", 0))
          ELSE /\ inflight' =
                     [inflight EXCEPT ![p] =
                         [Idle EXCEPT !.op = "create", !.pc = "scan",
                                      !.request =
                                          [customer |-> customer,
                                           items |-> items,
                                           loyaltyPointsUsed |-> 0,
                                           paymentDetails |-> <<>>],
                                      !.customerDoc = customers[customer],
                                      !.i = 1]]
               /\ UNCHANGED lastResult
    /\ UNCHANGED <<products, customers, bills, calc>>

\* One pass of the loop over the cart: the product is read and checked.
\* After the last line the insufficient-stock list is checked, billData is
\* built and Bill.create validates it and starts the bill number hook.
ScanStep(p) ==
    LET f    == inflight[p]
        scan == ScanItems(products, <<f.request.items[f.i]>>, f.billItems,
                          f.insufficientStock)
        doc  == NewBill(f.request.customer, scan.billItems,
                        f.request.loyaltyPointsUsed, f.request.paymentDetails)
    IN  /\ f.op = "create" /\ f.pc = "scan"
        /\ UNCHANGED <<products, customers, bills, calc>>
        /\ IF scan.kind # "Scanned"
           THEN Respond(p, Result(scan.kind, 0))
           ELSE IF f.i < Len(f.request.items)
           THEN /\ inflight' =
                      [inflight EXCEPT
                          ![p].billItems = scan.billItems,
                          ![p].insufficientStock = scan.insufficientStock,
                          ![p].i = f.i + 1]
                /\ UNCHANGED lastResult
           ELSE IF scan.insufficientStock # <<>>
           THEN Respond(p, [Result("InsufficientStock", 0) EXCEPT
                               !.insufficientStock = scan.insufficientStock])
           ELSE IF ~BillValidates(doc)
           THEN Respond(p, Result("ServerError", 0))
           ELSE /\ inflight' =
                      [inflight EXCEPT ![p].billItems = scan.billItems,
                                       ![p].doc = doc,
                                       ![p].pc = "count"]
                /\ UNCHANGED lastResult

\* The bill number hook's countDocuments.
CountStep(p) ==
    /\ inflight[p].op = "create" /\ inflight[p].pc = "count"
    /\ inflight' = [inflight EXCEPT ![p].count = Len(bills),
                                    ![p].pc = "insert"]
    /\ UNCHANGED <<products, customers, bills, lastResult, calc>>

\* The rest of the save: the number from the count, the totals hook, the
\* insert.
InsertStep(p) ==
    LET f    == inflight[p]
        bill == TotalsHook(BillNumberHook(f.doc, SubSeq(bills, 1, f.count)))
    IN  /\ f.op = "create" /\ f.pc = "insert"
        /\ UNCHANGED <<products, customers, calc>>
        /\ IF DuplicateKey(bills, bill)
           THEN /\ Respond(p, Result("ServerError", 0))
                /\ UNCHANGED bills
           ELSE /\ bills' = Append(bills, bill)
                /\ inflight' = [inflight EXCEPT ![p].doc = bill,
                                                ![p].bill = Len(bills) + 1,
                                                ![p].pc = "stock",
                                                ![p].i = 1]
                /\ UNCHANGED lastResult

\* One $inc of "Update product stock quantities".
StockStep(p) ==
    LET f == inflight[p]
    IN  /\ f.op = "create" /\ f.pc = "stock"
        /\ products' = DecrementStock(products, <<f.billItems[f.i]>>)
        /\ inflight' =
              IF f.i < Len(f.billItems)
              THEN [inflight EXCEPT ![p].i = f.i + 1]
              ELSE [inflight EXCEPT ![p].pc = "saveCustomer"]
        /\ UNCHANGED <<customers, bills, lastResult, calc>>

\* "Update customer statistics", on the customer document read at the
\* start, its save, and the response.
SaveCustomerStep(p) ==
    LET f     == inflight[p]
        c     == f.request.customer
        after == CustomerAfterPurchase(f.customerDoc, f.doc.grandTotal,
                                       f.request.loyaltyPointsUsed)
    IN  /\ f.op = "create" /\ f.pc = "saveCustomer"
        /\ UNCHANGED <<products, bills, calc>>
        /\ IF CustomerValidates(after.customer)
           THEN /\ customers' =
                      [customers EXCEPT ![c] =
                          SaveDoc(@, f.customerDoc,
                                  CustomerTypeHook(after.customer, TRUE))]
                /\ Respond(p, [Result("Created", f.bill) EXCEPT
                                  !.earnedPoints = after.earnedPoints])
           ELSE /\ UNCHANGED customers
                /\ Respond(p, Result("ServerError", f.bill))

\* POST /api/bills/:id/payments up to the response: the bill is read, the
\* guards are tested, applyPayment changes the document in memory and
\* starts its save, which the handler does not wait for.
StartPay(p) ==
    /\ inflight[p].op = "idle"
    /\ UNCHANGED <<products, customers, bills, calc>>
    /\ \E b \in 1..Len(bills), amount \in ConcurrentPayments :
          /\ Len(bills[b].paymentDetails) + Cardinality(RunningOn("pay", b))
                < MaxPayments
          /\ IF bills[b].paymentStatus = "paid"
             THEN Respond(p, PaymentResult("AlreadyPaid", b, amount))
             ELSE IF amount > RemainingBalance(bills[b])
             THEN Respond(p, PaymentResult("ExceedsBalance", b, amount))
             ELSE /\ lastResult' = PaymentResult("PaymentAdded", b, amount)
                  /\ inflight' =
                        [inflight EXCEPT ![p] =
                            [Idle EXCEPT !.op = "pay", !.pc = "savePayment",
                                         !.bill = b, !.doc = bills[b],
                                         !.amount = amount]]

\* The save applyPayment started: the hooks on the document in memory, then
\* the write.
PaySaveStep(p) ==
    LET f == inflight[p]
    IN  /\ f.op = "pay" /\ f.pc = "savePayment"
        /\ bills' = [bills EXCEPT ![f.bill] =
                        SaveBillDoc(@, f.doc, ApplyPayment(f.doc, f.amount))]
        /\ inflight' = [inflight EXCEPT ![p] = Idle]
        /\ UNCHANGED <<products, customers, lastResult, calc>>

\* PUT /api/bills/:id/cancel up to the first stock update: the bill is read
\* and the guards are tested.
StartCancel(p) ==
    /\ inflight[p].op = "idle"
    /\ UNCHANGED <<products, customers, bills, calc>>
    /\ \E b \in 1..Len(bills) :
          /\ IF bills[b].status = "cancelled"
             THEN Respond(p, Result("AlreadyCancelled", b))
             ELSE IF /\ bills[b].status = "completed"
                     /\ bills[b].paymentStatus = "paid"
             THEN Respond(p, Result("CannotCancelPaid", b))
             ELSE /\ inflight' =
                        [inflight EXCEPT ![p] =
                            [Idle EXCEPT !.op = "cancel", !.pc = "restore",
                                         !.bill = b, !.doc = bills[b],
                                         !.i = 1]]
                  /\ UNCHANGED lastResult

\* One $inc of "Restore stock quantities".
RestoreStep(p) ==
    LET f == inflight[p]
    IN  /\ f.op = "cancel" /\ f.pc = "restore"
        /\ products' = RestoreStock(products, <<f.doc.items[f.i]>>)
        /\ inflight' =
              IF f.i < Len(f.doc.items)
              THEN [inflight EXCEPT ![p].i = f.i + 1]
              ELSE IF f.doc.status = "completed"
              THEN [inflight EXCEPT ![p].pc = "findCustomer"]
              ELSE [inflight EXCEPT ![p].pc = "cancelSave"]
        /\ UNCHANGED <<customers, bills, lastResult, calc>>

\* Customer.findById of the cancel of a completed bill.
CancelFindCustomerStep(p) ==
    LET f == inflight[p]
    IN  /\ f.op = "cancel" /\ f.pc = "findCustomer"
        /\ inflight' =
              IF f.doc.customer \in DOMAIN customers
              THEN [inflight EXCEPT
                       ![p].customerDoc = customers[f.doc.customer],
                       ![p].pc = "reverseCustomer"]
              ELSE [inflight EXCEPT ![p].pc = "cancelSave"]
        /\ UNCHANGED <<products, customers, bills, lastResult, calc>>

\* The reversal on the customer document in memory, and its save.
CancelSaveCustomerStep(p) ==
    LET f == inflight[p]
    IN  /\ f.op = "cancel" /\ f.pc = "reverseCustomer"
        /\ customers' =
              [customers EXCEPT ![f.doc.customer] =
                  SaveDoc(@, f.customerDoc,
                          CustomerTypeHook(
                              ReversePurchase(f.customerDoc, f.doc), TRUE))]
        /\ inflight' = [inflight EXCEPT ![p].pc = "cancelSave"]
        /\ UNCHANGED <<products, bills, lastResult, calc>>

\* "Update bill status": the save of the bill document read at the start.
CancelSaveStep(p) ==
    LET f == inflight[p]
    IN  /\ f.op = "cancel" /\ f.pc = "cancelSave"
        /\ bills' = [bills EXCEPT ![f.bill] =
                        SaveBillDoc(@, f.doc,
                            TotalsHook([f.doc EXCEPT !.status = "cancelled"]))]
        /\ Respond(p, Result("Cancelled", f.bill))
        /\ UNCHANGED <<products, customers, calc>>

\* PUT /api/bills/:id that completes a draft bill: one findByIdAndUpdate.
CompleteDraft ==
    \E b \in 1..Len(bills) :
        /\ bills[b].status = "draft"
        /\ UpdateBill(b, "completed", "None")

NextConcurrent ==
    \/ \E p \in Procs : StartCreate(p)
    \/ \E p \in Procs : ScanStep(p)
    \/ \E p \in Procs : CountStep(p)
    \/ \E p \in Procs : InsertStep(p)
    \/ \E p \in Procs : StockStep(p)
    \/ \E p \in Procs : SaveCustomerStep(p)
    \/ \E p \in Procs : StartPay(p)
    \/ \E p \in Procs : PaySaveStep(p)
    \/ \E p \in Procs : StartCancel(p)
    \/ \E p \in Procs : RestoreStep(p)
    \/ \E p \in Procs : CancelFindCustomerStep(p)
    \/ \E p \in Procs : CancelSaveCustomerStep(p)
    \/ \E p \in Procs : CancelSaveStep(p)
    \/ CompleteDraft

SpecConcurrent == Init /\ [][NextConcurrent]_vars

\* C16: under any interleaving of concurrent create requests for the same
\* product, no more units are sold than were available: no product's
\* stockQuantity is negative in any reachable state.
C16_StockNeverNegative ==
    \A p \in ProductIds : products[p].stockQuantity >= 0

\* The step in which handler q saves the bill at the end of a cancel.
CancelSaveBy(q) ==
    /\ inflight[q].op = "cancel"
    /\ inflight[q].pc = "cancelSave"
    /\ inflight'[q].op = "idle"

\* C17: a cancel and a payment on the same bill exclude each other: when a
\* cancel completes (the bill becomes 'cancelled', its stock restored), the
\* bill holds no payment but those the cancel saw when it read the bill,
\* so none was recorded while the cancel was under way.
C17_CancelExcludesPayment ==
    [][\A q \in Procs :
          CancelSaveBy(q) =>
              bills'[inflight[q].bill].paymentDetails
                  = inflight[q].doc.paymentDetails]_vars

\* No request is being handled.
Quiet == \A p \in Procs : inflight[p].op = "idle"

\* C18: concurrent create requests for the same customer are independent:
\* once they are done (no bill was completed or cancelled since, and no
\* product was oversold), the customer's totalPurchases has grown by the
\* number of bills created and totalSpent by the sum of their grandTotals.
C18_CustomerSums ==
    (/\ Quiet
     /\ \A b \in BillIds : bills[b].status = "draft"
     /\ \A p \in ProductIds : products[p].stockQuantity >= 0) =>
        \A c \in CustomerIds :
            LET mine == SelectSeq(bills, LAMBDA bill : bill.customer = c)
            IN  /\ customers[c].totalPurchases
                      = calc.customers[c].totalPurchases + Len(mine)
                /\ customers[c].totalSpent
                      = calc.customers[c].totalSpent
                           + SumSeq([i \in 1..Len(mine) |->
                                        mine[i].grandTotal])

\* C19: every bill gets, at creation, the number one above the count of
\* the bills that exist (all of one day), no two bills share a number, and
\* a bill's number never changes or returns to use, under any interleaving
\* of creates and cancels.
C19_BillNumbers ==
    [][/\ Len(bills') >= Len(bills)
       /\ \A b \in 1..Len(bills') : bills'[b].billNumber = b
       /\ \A b \in BillIds : bills'[b].billNumber = bills[b].billNumber
       /\ \A b1, b2 \in 1..Len(bills') :
             b1 # b2 => bills'[b1].billNumber # bills'[b2].billNumber]_vars

\* A second bill numbered after a first one that was cancelled, with the
\* request that created it still at work.
C19_Witness ==
    /\ Len(bills) = 2
    /\ bills[1].status = "cancelled"
    /\ bills[2].billNumber = 2
    /\ Cardinality(Running("create")) = 1

(***************************************************************************)
(* SpecPrice: creates, payments and cancels, with product prices and tax   *)
(* rates changed by PUT /api/inventory/:id in between.                     *)
(***************************************************************************)
\* <<sellingPrice, taxRate>> of a product update.
PriceInputs == {<<Rupees(200), 5>>}

\* PUT /api/inventory/:id with sellingPrice and taxRate in the body: the
\* fields are copied onto the product, which is saved.
UpdateProduct(p, sellingPrice, taxRate) ==
    /\ p \in DOMAIN products
    /\ products' = [products EXCEPT ![p].sellingPrice = sellingPrice,
                                    ![p].taxRate = taxRate]
    /\ lastResult' = Result("ProductUpdated", 0)
    /\ UNCHANGED <<customers, bills, calc, inflight>>

ChangePrice ==
    \E p \in SellableIds, input \in PriceInputs :
        UpdateProduct(p, input[1], input[2])

NextPrice == Create \/ Pay \/ Cancel \/ ChangePrice

SpecPrice == Init /\ [][NextPrice]_vars

\* The priced fields of a bill line.
LineSnapshot(item) ==
    <<item.unitPrice, item.taxRate, item.discountAmount, item.taxAmount,
      item.lineTotal>>

\* C20: once a bill is created, no later step (a product's sellingPrice or
\* taxRate changed, a payment applied, the bill cancelled) changes any
\* line's unitPrice, taxRate, discountAmount, taxAmount or lineTotal, or
\* the bill's grandTotal.
C20_PriceSnapshot ==
    [][\A b \in BillIds :
          /\ Len(bills') >= b
          /\ bills'[b].grandTotal = bills[b].grandTotal
          /\ Len(bills'[b].items) = Len(bills[b].items)
          /\ \A i \in LineIds(b) :
                LineSnapshot(bills'[b].items[i])
                    = LineSnapshot(bills[b].items[i])]_vars

\* A bill that took a payment and was cancelled last, after the price and
\* the tax rate of a product on it were changed.
C20_Witness ==
    /\ lastResult.kind = "Cancelled"
    /\ LET bill == bills[lastResult.bill]
       IN  /\ bill.paymentDetails # <<>>
           /\ \E i \in 1..Len(bill.items) :
                 /\ products[bill.items[i].product].sellingPrice
                       # bill.items[i].unitPrice
                 /\ products[bill.items[i].product].taxRate
                       # bill.items[i].taxRate

TerminalStatuses == {"cancelled", "refunded"}

\* C21: once a bill's status is 'cancelled' or 'refunded', no cancel,
\* payment or PUT /:id changes the status again, and a cancel request on
\* it is refused as already cancelled and leaves every product as it was.
C21_TerminalStatuses ==
    [][\A b \in BillIds :
          bills[b].status \in TerminalStatuses =>
              /\ bills'[b].status = bills[b].status
              /\ CancelStepOn(b) =>
                    /\ lastResult'.kind = "AlreadyCancelled"
                    /\ products' = products]_vars

\* C22: running the totals hook again on a bill it has just been run on
\* (lines, deliveryCharges, amountPaid and loyaltyPointsUsed unchanged)
\* gives the same line amounts, subtotal, totalDiscount, totalTax,
\* grandTotal, amountDue and paymentStatus.
C22_HookIdempotent ==
    \A b \in BillIds :
        LET once == TotalsHook(bills[b])
        IN  TotalsHook(once) = once

\* A bill with a discounted, taxed line and redeemed points that the hook
\* has run on three times: at the create, at a payment and at the cancel.
C22_Witness ==
    /\ lastResult.kind = "Cancelled"
    /\ LET bill == bills[lastResult.bill]
       IN  /\ bill.loyaltyPointsUsed > 0
           /\ bill.totalDiscount > 0
           /\ bill.totalTax > 0
           /\ \E k \in 1..Len(bill.paymentDetails) :
                 bill.paymentDetails[k] \in PaymentAmounts
           /\ TotalsHook(bill) = bill

\* The units of product p a cart asks for, over all its lines.
QuantityOf(p, items) ==
    SumSeq([i \in 1..Len(items) |->
               IF items[i].product = p THEN items[i].quantity ELSE 0])

\* C23: after a successful create with grand total G, earned points E and
\* redeemed points U, the customer's totalPurchases is up by 1, totalSpent
\* by G, averageOrderValue is totalSpent / totalPurchases and loyaltyPoints
\* is up by E - U; each product's stockQuantity is down and its salesCount
\* up by the units of it in the cart.
C23_CreateEffects ==
    Created =>
        LET old == calc.customers[CreatedFor]
            new == customers[CreatedFor]
        IN  /\ new.totalPurchases = old.totalPurchases + 1
            /\ new.totalSpent = old.totalSpent + bills[1].grandTotal
            /\ new.averageOrderValue.num * new.totalPurchases
                  = new.totalSpent * new.averageOrderValue.den
            /\ new.loyaltyPoints
                  = old.loyaltyPoints + lastResult.earnedPoints
                       - calc.request.loyaltyPointsUsed
            /\ \A p \in ProductIds :
                  /\ products[p].stockQuantity
                        = calc.products[p].stockQuantity
                             - QuantityOf(p, calc.request.items)
                  /\ products[p].salesCount
                        = calc.products[p].salesCount
                             + QuantityOf(p, calc.request.items)

\* A create for a customer with earlier purchases, with redeemed points
\* and two lines of one product.
C23_Witness ==
    /\ Created
    /\ calc.customers[CreatedFor].totalPurchases > 0
    /\ calc.request.loyaltyPointsUsed > 0
    /\ lastResult.earnedPoints > 0
    /\ Len(calc.request.items) = 2
    /\ calc.request.items[1].product = calc.request.items[2].product

\* C24: after a create request handled alone, every product's
\* stockQuantity is at least 0, also when the cart names one product in
\* several lines.
C24_SequentialStockNotNegative ==
    calc.done => \A p \in ProductIds : products[p].stockQuantity >= 0

\* The points a bill of this grand total earns a customer of this tier.
PointsFor(customerType, grandTotal) ==
    (BasePoints(grandTotal) * TwiceMultiplier(customerType)) \div 2

\* C25: no customer's loyaltyPoints is ever negative, and a create request
\* that redeems more points than the customer's balance plus the points
\* the bill earns persists no bill and decrements no stock.
C25_PointsCovered ==
    /\ \A c \in CustomerIds : customers[c].loyaltyPoints >= 0
    /\ (calc.done /\ bills # <<>>) =>
          LET old == calc.customers[bills[1].customer]
          IN  bills[1].loyaltyPointsUsed
                 <= old.loyaltyPoints
                       + PointsFor(old.customerType, bills[1].grandTotal)

\* C26: the loyaltyPointsEarned of a bill created by POST /api/bills is the
\* number of points the customer was credited for it.
C26_EarnedRecorded ==
    Created => bills[1].loyaltyPointsEarned = PointsCredited

\* C27: whenever a bill's remaining balance (grandTotal - amountPaid -
\* loyaltyPointsUsed) is 0, its paymentStatus is 'paid'.  Stated for the
\* bills whose redeemed points are within half of the grand total.
C27_SettledIsPaid ==
    \A b \in BillIds :
        (/\ BalanceLeft(bills[b]) = 0
         /\ 2 * Rupees(bills[b].loyaltyPointsUsed) <= bills[b].grandTotal) =>
            bills[b].paymentStatus = "paid"

\* C28: a payment request on a bill whose status is 'cancelled' is refused
\* and leaves the bill's payments, amountPaid and paymentStatus as they
\* were.
C28_NoPaymentOnCancelled ==
    [][\A b \in BillIds :
          (PaymentStepOn(b) /\ bills[b].status = "cancelled") =>
              /\ lastResult'.kind # "PaymentAdded"
              /\ bills'[b].paymentDetails = bills[b].paymentDetails
              /\ bills'[b].amountPaid = bills[b].amountPaid
              /\ bills'[b].paymentStatus = bills[b].paymentStatus]_vars

\* C30: on every bill, after its creation (with or without paymentDetails)
\* and after every payment request, amountPaid is the sum of the amounts
\* of the bill's payment records, and a refused payment request adds no
\* payment record.
C30_PaidIsSumOfPayments ==
    [][/\ \A b \in 1..Len(bills') :
             bills'[b].amountPaid = SumSeq(bills'[b].paymentDetails)
       /\ \A b \in BillIds :
             (PaymentStepOn(b) /\ lastResult'.kind # "PaymentAdded") =>
                 bills'[b].paymentDetails = bills[b].paymentDetails]_vars

\* A bill created with a payment of 300, that accepted a payment of 400
\* and refused the next one.
C30_Witness ==
    /\ lastResult.kind = "ExceedsBalance"
    /\ lastResult.bill \in BillIds
    /\ bills[lastResult.bill].paymentDetails = <<Rupees(300), Rupees(400)>>
    /\ bills[lastResult.bill].amountPaid = Rupees(700)

\* C29: under every interleaving of two or more cancel requests on a bill,
\* each line's quantity is added back to the product's stock and taken off
\* its salesCount at most once.  Every line of a persisted bill is taken
\* from the stock once by its create request, so once no create request is
\* running, no product has more stock than the store started with and no
\* salesCount is negative.
C29_RestoredAtMostOnce ==
    Running("create") = {} =>
        \A p \in ProductIds :
            /\ products[p].stockQuantity <= calc.products[p].stockQuantity
            /\ products[p].salesCount >= 0

====
